---------------------------- MODULE Spec2Model ----------------------------
(***************************************************************************)
(* A model of the PubMed loader (src/data_sources/PubMed.py, app.py).      *)
(*                                                                         *)
(*   Spec      one ArticleLoader job: the background worker (task) and a   *)
(*             poller calling get_progress().                              *)
(*   SpecDl    the same worker and the download endpoints of app.py.       *)
(*   SpecLoad  one call of CustomPubMed.load_articles_by_date with real    *)
(*             sized counts (the 9999 ceiling, the 1000 page).             *)
(*   SpecRate  CustomPubMed._get and its rate limiter, in discrete time.   *)
(*                                                                         *)
(* A list of parsed articles is a sequence of batches; a batch is the      *)
(* record [win, from, n]: the n articles one efetch page returned for the  *)
(* search handle of window win at offset from.  A Python Optional[int] is  *)
(* <<>> (None) or <<m>>; so is float("inf") in `remaining`.                *)
(***************************************************************************)
EXTENDS Integers, Sequences, FiniteSets, TLC

(***************************************************************************)
(* Bounds of the model.                                                    *)
(***************************************************************************)
\* the worker walks the first LadderLen windows of date_ranges
LadderLen == 2
\* the remote service reports counts 0..MaxCount to the job's searches
MaxCount == 2
\* the largest max_results a client posts to /api/start
MaxM == 3

(***************************************************************************)
(* Program constants.                                                      *)
(***************************************************************************)
\* PubMed.py:377,379  the retrieval ceiling
W == 9999
\* PubMed.py:383  batch_size=1000
BatchSize == 1000
\* PubMed.py:40  self._rateLimit
RateLimit == 3

None == <<>>
Some(x) == <<x>>
\* Python truthiness of an Optional[int]: None and 0 are false
Truthy(o) == o # None /\ o[1] # 0

Min(a, b) == IF a <= b THEN a ELSE b

\* PubMed.py:465-481, as day numbers counted from 1950/01/01 (the last
\* window ends with the current year, here 2026)
date_ranges ==
  << <<0, 2190>>, <<2191, 4017>>, <<4018, 5843>>, <<5844, 7669>>,
     <<7670, 9495>>, <<9496, 11322>>, <<11323, 13148>>, <<13149, 14974>>,
     <<14975, 16800>>, <<16801, 18627>>, <<18628, 20453>>, <<20454, 22279>>,
     <<22280, 24105>>, <<24106, 25932>>, <<25933, 28123>> >>

Ladder == SubSeq(date_ranges, 1, Min(LadderLen, Len(date_ranges)))

\* len() of a list of articles held as batches
RECURSIVE NumArticles(_)
NumArticles(bs) ==
  IF bs = <<>> THEN 0 ELSE bs[1].n + NumArticles(Tail(bs))

\* the statuses task() writes, in the order it writes them (PubMed.py:437-560)
StatusOrder ==
  << "Idle", "Starting...", "Downloading...", "Save article IDs using pickle",
     "Save articles to JSON", "Save articles to txt", "Creating ZIP archive",
     "Completed" >>

Rank(s) == CHOOSE i \in 1..Len(StatusOrder) : StatusOrder[i] = s

VARIABLES
  \* ArticleLoader fields (PubMed.py:432-439)
  lock, status, progress, total, output_files,
  \* locals of task() (PubMed.py:451-560)
  pc, max_results, total_available, total_fetched, all_articles, widx, i_txt,
  \* the files of base_dir
  fs,
  \* CustomPubMed.load_articles_by_date in progress
  stack, fetch, ret, requests,
  \* a poller inside get_progress(), and the last snapshot it got
  ppc, snap,
  \* the last answer of a download endpoint
  dl,
  \* time.time() as the loader reads it, and ArticleLoader.last_updated
  clock, last_updated,
  \* the PubDate element parse_pubmed_article reads, and the date it renders
  pub_date, PublicationDate,
  \* the CustomPubMed of a second job of the same process: its _requestsMade,
  \* its place in _get and the end of its sleep
  other,
  \* a second poller inside get_progress()
  ppc2,
  \* CustomPubMed._get in time
  now, requestsMade, dispatched, rpc, wake

loaderVars == <<lock, status, progress, total, output_files>>
taskVars == <<pc, max_results, total_available, total_fetched, all_articles, widx, i_txt>>
loadVars == <<stack, fetch, ret, requests>>
pollVars == <<ppc, snap>>
rateVars == <<now, requestsMade, dispatched, rpc, wake>>
stampVars == <<clock, last_updated>>
dateVars == <<pub_date, PublicationDate>>
vars ==
  <<loaderVars, taskVars, fs, loadVars, pollVars, dl, rateVars, stampVars,
    dateVars, other, ppc2>>

NoFile == [state |-> "absent", data |-> <<>>]

\* no second job
NoOther == [requestsMade |-> <<>>, at |-> "off", kind |-> "none", wake |-> 0]
\* an archive holds a set of entries: the names <i> of the files <i>.txt
NoArchive == [state |-> "absent", data |-> {}]

NoFetch == [handle |-> <<>>, max_results |-> 0, fetched |-> 0, articles |-> <<>>, short |-> 0]

\* at most MaxShort pages of one fetch_articles call come back short
MaxShort == 1
\* the counts and budgets of SpecLoad lie within Slack of 0, BatchSize and W
Slack == 1

Near(x) == {v \in (x - Slack)..(x + Slack) : v >= 0}

(***************************************************************************)
(* The remote service.                                                     *)
(***************************************************************************)
\* the counts esearch reports to the job
Counts == 0..MaxCount
\* the counts esearch reports in SpecLoad
LoadCounts == Near(0) \cup Near(BatchSize) \cup Near(W)

\* How many articles an efetch page holds: none beyond the ceiling, else
\* the retmax asked for, one fewer, or none.
PageReturns(retstart, retmax, short) ==
  IF retstart >= W THEN {0}
  ELSE {n \in 0..retmax : \/ n = 0
                          \/ n = retmax
                          \/ n = retmax - 1 /\ short < MaxShort}

(***************************************************************************)
(* app.py start_loading                                                    *)
(***************************************************************************)
\* what data.get("max_results") can be: absent, a JSON number, a string
RawInputs ==
  {[kind |-> "absent", v |-> 0]}
    \cup {[kind |-> k, v |-> m] : k \in {"int", "str"}, m \in (0 - 1)..MaxM}

\* app.py:31  int(max_results) if max_results else None
ToMaxResults(raw) ==
  IF raw.kind = "absent" \/ (raw.kind = "int" /\ raw.v = 0)
  THEN None ELSE Some(raw.v)

(***************************************************************************)
(* CustomPubMed.load_articles_by_date                                      *)
(***************************************************************************)
Inf == <<>>

\* PubMed.py:410-417
Budget(mr) == IF mr = None THEN Inf ELSE mr

\* PubMed.py:377  min(remaining, total_available, 9999)
FetchCount(remaining, count) ==
  IF remaining = Inf THEN Min(count, W)
  ELSE Min(remaining[1], Min(count, W))

\* a slip: a fetch count at the ceiling is split too
FetchesDirectly_Strict(fetch_count) == fetch_count < W

\* PubMed.py:379  the test that chooses between fetching and splitting
FetchesDirectly(fetch_count) == fetch_count <= W

\* PubMed.py:392-393  the midpoint, cut to midnight
MidPoint(start, end) == start + ((end - start) \div 2)

\* PubMed.py:399
RemainingAfter(remaining, first_half) ==
  IF remaining = Inf THEN Inf ELSE Some(remaining[1] - NumArticles(first_half))

\* a slip: the last page is not cut to what is left
CurrentBatchSize_Uncut(batch_size, mr, fetched) == batch_size

\* PubMed.py:120-124
CurrentBatchSize(batch_size, mr, fetched) ==
  IF mr # 0 /\ mr - fetched < batch_size THEN mr - fetched ELSE batch_size

\* PubMed.py:118
FetchDone(mr, fetched) == mr # 0 /\ fetched >= mr

\* a slip: the offset moves on by the articles the page held
NextFetched_ByReturned(fetched, current_batch_size, n) == fetched + n

\* PubMed.py:149
NextFetched(fetched, current_batch_size, n) == fetched + current_batch_size

Top == stack[Len(stack)]

\* The log of the requests one load_articles_by_date call has sent, each
\* with its answer `got`: the count of a search (PubMed.py:81-94), the
\* number of articles of a fetched page (PubMed.py:125-145), Failed for an
\* HTTP error.
Failed == 0 - 1

SearchRequest(start, end, got) ==
  [kind |-> "search", win |-> <<start, end>>, retstart |-> 0, retmax |-> 0,
   got |-> got]

FetchRequest(handle, retstart, retmax, got) ==
  [kind |-> "fetch", win |-> handle, retstart |-> retstart, retmax |-> retmax,
   got |-> got]

\* a slip: no early return
EmptyWindow_Never(count) == FALSE

\* PubMed.py:373-374  the early return for an empty window
EmptyWindow(count) == count = 0

\* PubMed.py:364-397  recursive_load up to its fetch or its first recursion
recursive_load(C) ==
  /\ pc = "rl_search"
  /\ \/ \* PubMed.py:60-67  the search request fails and _get raises
        /\ requests' = Append(requests, SearchRequest(Top.start, Top.end, Failed))
        /\ pc' = "dead"
        /\ UNCHANGED <<stack, fetch, ret>>
     \/ \E count \in C :
          /\ requests' = Append(requests, SearchRequest(Top.start, Top.end, count))
          /\ IF EmptyWindow(count)
             THEN /\ ret' = <<>>
                  /\ pc' = "rl_ret"
                  /\ UNCHANGED <<stack, fetch>>
             ELSE LET fetch_count == FetchCount(Top.remaining, count) IN
                  IF FetchesDirectly(fetch_count)
                  THEN /\ fetch' = [handle |-> <<Top.start, Top.end>>,
                                    max_results |-> fetch_count,
                                    fetched |-> 0, articles |-> <<>>, short |-> 0]
                       /\ pc' = "fa_loop"
                       /\ UNCHANGED <<stack, ret>>
                  ELSE /\ stack' = Append(stack,
                                     [start |-> Top.start,
                                      end |-> MidPoint(Top.start, Top.end),
                                      remaining |-> Top.remaining])
                       /\ pc' = "rl_search"
                       /\ UNCHANGED <<fetch, ret>>
  /\ UNCHANGED <<loaderVars, max_results, total_available, total_fetched,
                 all_articles, widx, i_txt, fs, pollVars, dl, rateVars,
                 stampVars, dateVars, other, ppc2>>

\* PubMed.py:117-119, 153  the fetch loop ends: everything asked for was requested
fetch_articles_break ==
  /\ pc = "fa_loop"
  /\ FetchDone(fetch.max_results, fetch.fetched)
  /\ ret' = fetch.articles
  /\ fetch' = NoFetch
  /\ pc' = "rl_ret"
  /\ UNCHANGED <<loaderVars, max_results, total_available, total_fetched,
                 all_articles, widx, i_txt, fs, stack, requests, pollVars, dl,
                 rateVars, stampVars, dateVars, other, ppc2>>

\* PubMed.py:120-152  one page of fetch_articles
fetch_articles_batch ==
  /\ pc = "fa_loop"
  /\ ~FetchDone(fetch.max_results, fetch.fetched)
  /\ LET current_batch_size ==
           CurrentBatchSize(BatchSize, fetch.max_results, fetch.fetched) IN
       \/ \* PubMed.py:60-67  the fetch request fails and _get raises
          /\ requests' = Append(requests,
                FetchRequest(fetch.handle, fetch.fetched, current_batch_size, Failed))
          /\ pc' = "dead"
          /\ UNCHANGED <<fetch, ret>>
       \/ \E n \in PageReturns(fetch.fetched, current_batch_size, fetch.short) :
          /\ requests' = Append(requests,
                FetchRequest(fetch.handle, fetch.fetched, current_batch_size, n))
          /\ IF n = 0
             THEN \* PubMed.py:146-147
                  /\ ret' = fetch.articles
                  /\ fetch' = NoFetch
                  /\ pc' = "rl_ret"
             ELSE /\ fetch' =
                       [fetch EXCEPT
                          !.articles = Append(@, [win |-> fetch.handle,
                                                  from |-> fetch.fetched,
                                                  n |-> n]),
                          !.fetched = NextFetched(@, current_batch_size, n),
                          !.short = IF n < current_batch_size THEN @ + 1 ELSE @]
                  /\ pc' = "fa_loop"
                  /\ UNCHANGED ret
  /\ UNCHANGED <<loaderVars, max_results, total_available, total_fetched,
                 all_articles, widx, i_txt, fs, stack, pollVars, dl, rateVars,
                 stampVars, dateVars, other, ppc2>>

\* PubMed.py:389, 397-407, 420-421  a recursive_load call returns `ret`: to
\* the caller of load_articles_by_date (which goes on at `cont`), or into
\* the half-split frame below, which returns the first half when the budget
\* is spent and otherwise evaluates timedelta(days=1), a name PubMed.py
\* never imports (NameError).
recursive_load_return(cont) ==
  /\ pc = "rl_ret"
  /\ LET below == SubSeq(stack, 1, Len(stack) - 1) IN
       /\ stack' = below
       /\ IF below = <<>>
          THEN pc' = cont
          ELSE LET remaining_after_first ==
                     RemainingAfter(below[Len(below)].remaining, ret) IN
               IF remaining_after_first # Inf /\ remaining_after_first[1] <= 0
               THEN pc' = "rl_ret"
               ELSE pc' = "dead"
  /\ UNCHANGED <<loaderVars, max_results, total_available, total_fetched,
                 all_articles, widx, i_txt, fs, fetch, ret, requests, pollVars,
                 dl, rateVars, stampVars, dateVars, other, ppc2>>

(***************************************************************************)
(* CustomPubMed.parse_pubmed_article: the PublicationDate field.  A string  *)
(* is the sequence of its characters.                                      *)
(***************************************************************************)
UpperCase ==
  <<"A", "B", "C", "D", "E", "F", "G", "H", "I", "J", "K", "L", "M",
    "N", "O", "P", "Q", "R", "S", "T", "U", "V", "W", "X", "Y", "Z">>

LowerCase ==
  <<"a", "b", "c", "d", "e", "f", "g", "h", "i", "j", "k", "l", "m",
    "n", "o", "p", "q", "r", "s", "t", "u", "v", "w", "x", "y", "z">>

Digits == <<"0", "1", "2", "3", "4", "5", "6", "7", "8", "9">>

\* str.lower() of a string
Lower(str) ==
  [i \in DOMAIN str |->
     IF \E k \in DOMAIN UpperCase : UpperCase[k] = str[i]
       THEN LowerCase[CHOOSE k \in DOMAIN UpperCase : UpperCase[k] = str[i]]
       ELSE str[i]]

\* calendar.month_abbr of the C locale, lowered as _strptime keeps it
month_abbr ==
  <<<<"j", "a", "n">>,
     <<"f", "e", "b">>,
     <<"m", "a", "r">>,
     <<"a", "p", "r">>,
     <<"m", "a", "y">>,
     <<"j", "u", "n">>,
     <<"j", "u", "l">>,
     <<"a", "u", "g">>,
     <<"s", "e", "p">>,
     <<"o", "c", "t">>,
     <<"n", "o", "v">>,
     <<"d", "e", "c">>>>

\* PubMed.py:266  month_str[:3]
FirstThree(month_str) == SubSeq(month_str, 1, Min(3, Len(month_str)))

\* PubMed.py:266  strptime(s, '%b') raises ValueError unless the whole of s
\* is, in any case of letters, an abbreviated month name
StrptimeFails(str) == \A k \in DOMAIN month_abbr : month_abbr[k] # Lower(str)

\* PubMed.py:266  datetime_obj.month
StrptimeMonth(str) == CHOOSE k \in DOMAIN month_abbr : month_abbr[k] = Lower(str)

\* PubMed.py:267  f"{month:02}" of a month number
TwoDigits(n) == <<Digits[(n \div 10) + 1], Digits[(n % 10) + 1]>>

\* PubMed.py:262-269
convert_month_to_number(month_str) ==
  IF StrptimeFails(FirstThree(month_str))
    THEN month_str
    ELSE TwoDigits(StrptimeMonth(FirstThree(month_str)))

\* PubMed.py:212  str.zfill(width) of a string of digits
zfill(str, width) ==
  IF Len(str) >= width THEN str ELSE [i \in 1..(width - Len(str)) |-> "0"] \o str

\* PubMed.py:208-225  a missing element and an empty text are both falsy:
\* both are the empty sequence here
PubDateText(year, month, day) ==
  IF year # <<>> /\ month # <<>> /\ day # <<>>
    THEN year \o <<"-">> \o convert_month_to_number(month) \o <<"-">> \o zfill(day, 2)
  ELSE IF year # <<>> /\ month # <<>>
    THEN year \o <<"-">> \o convert_month_to_number(month)
  ELSE IF year # <<>>
    THEN year
  ELSE <<"U", "n", "k", "n", "o", "w", "n">>

\* PubMed.py:204-227  pub_date is None when the article has no PubDate
PublicationDateOf(pd) ==
  IF pd = None
    THEN <<"U", "n", "k", "n", "o", "w", "n">>
    ELSE PubDateText(pd[1].Year, pd[1].Month, pd[1].Day)

\* the field before the article is parsed
NotParsed == <<"?">>

\* PubMed.py:203-227
parse_pubmed_article ==
  /\ PublicationDate = NotParsed
  /\ PublicationDate' = PublicationDateOf(pub_date)
  /\ UNCHANGED <<loaderVars, taskVars, fs, loadVars, pollVars, dl, rateVars,
                 stampVars, pub_date, other, ppc2>>

(***************************************************************************)
(* ArticleLoader.load_articles and its thread, task()                      *)
(***************************************************************************)
\* a slip: the block of the progress update asks for the lock it holds
LockBody_Reentered ==
  [acq_files |-> "files", acq_total |-> "total",
   acq_progress |-> "acq_progress", acq_ids |-> "ids", acq_json |-> "json",
   acq_txt |-> "txt", acq_zip |-> "zip", acq_completed |-> "completed"]

\* a slip: the block of the pickle stage is entered at the open() of the file
LockBody_AroundDump ==
  [acq_files |-> "files", acq_total |-> "total", acq_progress |-> "progress",
   acq_ids |-> "open_pickle", acq_json |-> "json", acq_txt |-> "txt",
   acq_zip |-> "zip", acq_completed |-> "completed"]

\* the `with self.lock:` blocks of task(), each entered at acq_x and run at x
LockBody ==
  [acq_files |-> "files", acq_total |-> "total", acq_progress |-> "progress",
   acq_ids |-> "ids", acq_json |-> "json", acq_txt |-> "txt",
   acq_zip |-> "zip", acq_completed |-> "completed"]

\* PubMed.py:493
TotalFor(mr, count) == IF Truthy(mr) THEN mr[1] ELSE count

\* a slip: the loop stops one article early
MaxReached_OneEarly(mr, fetched) == Truthy(mr) /\ fetched + 1 >= mr[1]

\* PubMed.py:497, 512
MaxReached(mr, fetched) == Truthy(mr) /\ fetched >= mr[1]

\* a slip: the whole maximum is passed on, whatever was fetched before
RemainingFor_Whole(mr, fetched) == IF Truthy(mr) THEN Some(mr[1]) ELSE None

\* PubMed.py:499
RemainingFor(mr, fetched) == IF Truthy(mr) THEN Some(mr[1] - fetched) ELSE None

\* a slip: the count of the last window alone
NewTotalFetched_LastWindow(fetched, articles) == NumArticles(articles)

\* PubMed.py:508
NewTotalFetched(fetched, articles) == fetched + NumArticles(articles)

\* PubMed.py:511
ProgressFor(fetched) == fetched

\* a slip: the time is read one step before it is written
update_timestamp_Stale(t) == IF t > 0 THEN t - 1 ELSE 0

\* PubMed.py:441-443  the value update_timestamp writes to last_updated when
\* time.time() reads t
update_timestamp(t) == t

\* app.py:20-47 and PubMed.py:445-449, 562: a loader is made and registered,
\* load_articles touches the timestamp and starts the thread
start_loading ==
  /\ pc = "idle"
  /\ \E raw \in RawInputs : max_results' = ToMaxResults(raw)
  /\ pc' = "mkdir"
  /\ last_updated' = update_timestamp(clock)
  /\ UNCHANGED <<loaderVars, total_available, total_fetched, all_articles,
                 widx, i_txt, fs, loadVars, pollVars, dl, rateVars, clock,
                 dateVars, other, ppc2>>

\* PubMed.py:452-457
task_makedirs ==
  /\ pc = "mkdir"
  /\ \/ pc' = "acq_files"
     \/ pc' = "dead"
  /\ UNCHANGED <<loaderVars, max_results, total_available, total_fetched,
                 all_articles, widx, i_txt, fs, loadVars, pollVars, dl, rateVars,
                 stampVars, dateVars, other, ppc2>>

\* the worker enters one of its `with self.lock:` blocks
task_acquire ==
  /\ pc \in DOMAIN LockBody
  /\ lock = "free"
  /\ lock' = "task"
  /\ pc' = LockBody[pc]
  /\ UNCHANGED <<status, progress, total, output_files, max_results,
                 total_available, total_fetched, all_articles, widx, i_txt, fs,
                 loadVars, pollVars, dl, rateVars, stampVars, dateVars, other,
                 ppc2>>

\* PubMed.py:459-461
task_output_files ==
  /\ pc = "files"
  /\ output_files' = {"json", "zip"}
  /\ lock' = "free"
  /\ pc' = "starting"
  /\ UNCHANGED <<status, progress, total, max_results, total_available,
                 total_fetched, all_articles, widx, i_txt, fs, loadVars,
                 pollVars, dl, rateVars, stampVars, dateVars, other, ppc2>>

\* PubMed.py:463-489  (written without the lock)
task_starting ==
  /\ pc = "starting"
  /\ status' = "Starting..."
  /\ progress' = 0
  /\ all_articles' = <<>>
  /\ total_fetched' = 0
  /\ pc' = "search"
  /\ UNCHANGED <<lock, total, output_files, max_results, total_available,
                 widx, i_txt, fs, loadVars, pollVars, dl, rateVars, stampVars,
                 dateVars, other, ppc2>>

\* PubMed.py:490-491  the search for the aggregate count
task_search ==
  /\ pc = "search"
  /\ \/ /\ pc' = "dead"
        /\ UNCHANGED total_available
     \/ /\ \E count \in Counts : total_available' = Some(count)
        /\ pc' = "acq_total"
  /\ UNCHANGED <<loaderVars, max_results, total_fetched, all_articles, widx,
                 i_txt, fs, loadVars, pollVars, dl, rateVars, stampVars,
                 dateVars, other, ppc2>>

\* PubMed.py:492-494
task_total ==
  /\ pc = "total"
  /\ total' = TotalFor(max_results, total_available[1])
  /\ status' = "Downloading..."
  /\ lock' = "free"
  /\ pc' = "loop"
  /\ UNCHANGED <<progress, output_files, max_results, total_available,
                 total_fetched, all_articles, widx, i_txt, fs, loadVars,
                 pollVars, dl, rateVars, stampVars, dateVars, other, ppc2>>

\* PubMed.py:496-506  the head of the loop over date_ranges: the ladder is
\* exhausted, or the maximum is reached, or the next window is loaded
task_loop ==
  /\ pc = "loop"
  /\ IF widx > Len(Ladder) \/ MaxReached(max_results, total_fetched)
     THEN /\ pc' = "acq_ids"
          /\ UNCHANGED <<stack, requests>>
     ELSE /\ stack' = << [start |-> Ladder[widx][1], end |-> Ladder[widx][2],
                          remaining |->
                            Budget(RemainingFor(max_results, total_fetched))] >>
          /\ requests' = <<>>
          /\ pc' = "rl_search"
  /\ UNCHANGED <<loaderVars, max_results, total_available, total_fetched,
                 all_articles, widx, i_txt, fs, fetch, ret, pollVars, dl,
                 rateVars, stampVars, dateVars, other, ppc2>>

\* PubMed.py:507-509
task_extend ==
  /\ pc = "extend"
  /\ all_articles' = all_articles \o ret
  /\ total_fetched' = NewTotalFetched(total_fetched, ret)
  /\ pc' = "acq_progress"
  /\ UNCHANGED <<loaderVars, max_results, total_available, widx, i_txt, fs,
                 loadVars, pollVars, dl, rateVars, stampVars, dateVars, other,
                 ppc2>>

\* PubMed.py:510-513
task_progress ==
  /\ pc = "progress"
  /\ progress' = ProgressFor(total_fetched)
  /\ lock' = "free"
  /\ IF MaxReached(max_results, total_fetched)
     THEN pc' = "acq_ids" /\ UNCHANGED widx
     ELSE pc' = "loop" /\ widx' = widx + 1
  /\ UNCHANGED <<status, total, output_files, max_results, total_available,
                 total_fetched, all_articles, i_txt, fs, loadVars, pollVars, dl,
                 rateVars, stampVars, dateVars, other, ppc2>>

\* the status each `with self.lock:` block of the saving stages writes
\* (PubMed.py:519, 530, 539, 547, 560) and where the worker goes on
StatusWrites ==
  [ids |-> [status |-> "Save article IDs using pickle", next |-> "open_pickle"],
   json |-> [status |-> "Save articles to JSON", next |-> "open_json"],
   txt |-> [status |-> "Save articles to txt", next |-> "mkdir_txt"],
   zip |-> [status |-> "Creating ZIP archive", next |-> "open_zip"],
   completed |-> [status |-> "Completed", next |-> "done"]]

\* PubMed.py:518-519, 529-530, 538-539, 546-547, 559-560
task_status ==
  /\ pc \in DOMAIN StatusWrites
  /\ status' = StatusWrites[pc].status
  /\ lock' = "free"
  /\ pc' = StatusWrites[pc].next
  /\ UNCHANGED <<progress, total, output_files, max_results, total_available,
                 total_fetched, all_articles, widx, i_txt, fs, loadVars,
                 pollVars, dl, rateVars, stampVars, dateVars, other, ppc2>>

\* the file each open() of the saving stages creates (PubMed.py:522, 532, 548)
Opens == [open_pickle |-> "pickle", open_json |-> "json", open_zip |-> "zip"]

\* PubMed.py:522, 532, 548  open(path, "w"): the file exists, empty, or the
\* open fails
task_open ==
  /\ pc \in DOMAIN Opens
  /\ \/ /\ fs' = [fs EXCEPT ![Opens[pc]] = [@ EXCEPT !.state = "partial"]]
        /\ pc' = CASE pc = "open_pickle" -> "dump_pickle"
                   [] pc = "open_json" -> "dump_json"
                   [] pc = "open_zip" -> "zip_write"
     \/ /\ pc' = "dead"
        /\ UNCHANGED fs
  /\ UNCHANGED <<loaderVars, max_results, total_available, total_fetched,
                 all_articles, widx, i_txt, loadVars, pollVars, dl, rateVars,
                 stampVars, dateVars, other, ppc2>>

\* a slip: the first batch of articles is left out
ArticleIds_Tail(articles) == IF articles = <<>> THEN <<>> ELSE Tail(articles)

\* PubMed.py:521  the PMID of every article, in the order of the list: a
\* batch of n articles gives the batch of their n PMIDs
ArticleIds(articles) ==
  [b \in DOMAIN articles |->
     [win |-> articles[b].win, from |-> articles[b].from, n |-> articles[b].n]]

\* PubMed.py:521-524  article_ids dumped and the file closed
task_dump_pickle ==
  /\ pc = "dump_pickle"
  /\ \/ /\ fs' = [fs EXCEPT !.pickle = [state |-> "complete",
                                         data |-> ArticleIds(all_articles)]]
        /\ pc' = "acq_json"
     \/ /\ pc' = "dead"
        /\ UNCHANGED fs
  /\ UNCHANGED <<loaderVars, max_results, total_available, total_fetched,
                 all_articles, widx, i_txt, loadVars, pollVars, dl, rateVars,
                 stampVars, dateVars, other, ppc2>>

\* PubMed.py:533-534  all_articles dumped and the file closed
task_dump_json ==
  /\ pc = "dump_json"
  /\ \/ /\ fs' = [fs EXCEPT !.json = [state |-> "complete", data |-> all_articles]]
        /\ pc' = "acq_txt"
     \/ /\ pc' = "dead"
        /\ UNCHANGED fs
  /\ UNCHANGED <<loaderVars, max_results, total_available, total_fetched,
                 all_articles, widx, i_txt, loadVars, pollVars, dl, rateVars,
                 stampVars, dateVars, other, ppc2>>

\* PubMed.py:540
task_mkdir_txt ==
  /\ pc = "mkdir_txt"
  /\ \/ pc' = "write_txt" /\ i_txt' = 0
     \/ pc' = "dead" /\ UNCHANGED i_txt
  /\ UNCHANGED <<loaderVars, max_results, total_available, total_fetched,
                 all_articles, widx, fs, loadVars, pollVars, dl, rateVars,
                 stampVars, dateVars, other, ppc2>>

\* PubMed.py:541-542  one file <i>.txt per article
task_write_txt ==
  /\ pc = "write_txt"
  /\ IF i_txt < NumArticles(all_articles)
     THEN \/ /\ fs' = [fs EXCEPT !.txt = @ \cup {i_txt}]
             /\ i_txt' = i_txt + 1
             /\ pc' = "write_txt"
          \/ /\ pc' = "dead"
             /\ UNCHANGED <<fs, i_txt>>
     ELSE /\ pc' = "acq_zip"
          /\ UNCHANGED <<fs, i_txt>>
  /\ UNCHANGED <<loaderVars, max_results, total_available, total_fetched,
                 all_articles, widx, loadVars, pollVars, dl, rateVars,
                 stampVars, dateVars, other, ppc2>>

\* PubMed.py:549-555  the files of output_txt go into the archive one by
\* one; leaving the `with` block closes it
task_zip_write ==
  /\ pc = "zip_write"
  /\ LET left == fs.txt \ fs.zip.data IN
       IF left # {}
       THEN \/ /\ fs' = [fs EXCEPT !.zip.data =
                           @ \cup {CHOOSE f \in left : \A g \in left : f <= g}]
               /\ pc' = "zip_write"
            \/ /\ pc' = "dead"
               /\ UNCHANGED fs
       ELSE /\ fs' = [fs EXCEPT !.zip.state = "complete"]
            /\ pc' = "acq_completed"
  /\ UNCHANGED <<loaderVars, max_results, total_available, total_fetched,
                 all_articles, widx, i_txt, loadVars, pollVars, dl, rateVars,
                 stampVars, dateVars, other, ppc2>>

(***************************************************************************)
(* ArticleLoader.get_progress, called by app.py get_status                 *)
(***************************************************************************)
\* PubMed.py:569-573
Snapshot == [status |-> status, progress |-> progress, total |-> total]

\* PubMed.py:442, 568  the poller takes the lock, for update_timestamp and
\* then for the snapshot; app.py:55 answers only for a registered loader
poll_acquire ==
  /\ pc # "idle"
  /\ ppc \in {"idle", "mid"}
  /\ lock = "free"
  /\ lock' = "poller"
  /\ ppc' = IF ppc = "idle" THEN "stamp" ELSE "read"
  /\ UNCHANGED <<status, progress, total, output_files, taskVars, fs, loadVars,
                 snap, dl, rateVars, stampVars, dateVars, other, ppc2>>

\* PubMed.py:566, 441-443  update_timestamp under the lock
poll_stamp ==
  /\ ppc = "stamp"
  /\ last_updated' = update_timestamp(clock)
  /\ lock' = "free"
  /\ ppc' = "mid"
  /\ UNCHANGED <<status, progress, total, output_files, taskVars, fs, loadVars,
                 snap, dl, rateVars, clock, dateVars, other, ppc2>>

\* PubMed.py:568-573
poll_read ==
  /\ ppc = "read"
  /\ snap' = Some(Snapshot)
  /\ lock' = "free"
  /\ ppc' = "idle"
  /\ UNCHANGED <<status, progress, total, output_files, taskVars, fs, loadVars,
                 dl, rateVars, stampVars, dateVars, other, ppc2>>

(***************************************************************************)
(* app.py download_json, download_zip                                      *)
(***************************************************************************)
\* app.py:71-76, 86-90  served when output_files has the path and the file
\* exists; dl keeps what was answered and the job's status at that moment
Served(kind) == kind \in output_files /\ fs[kind].state # "absent"

download(kind) ==
  /\ pc # "idle"
  /\ dl' = Some([kind |-> kind,
                 answer |-> IF Served(kind) THEN "file" ELSE "404",
                 file |-> fs[kind].state,
                 status |-> status])
  /\ UNCHANGED <<loaderVars, taskVars, fs, loadVars, pollVars, rateVars,
                 stampVars, dateVars, other, ppc2>>

(***************************************************************************)
(* The job, with a poller (Spec) and with the download endpoints (SpecDl)  *)
(***************************************************************************)
RateIdle ==
  /\ now = 0
  /\ requestsMade = <<>>
  /\ dispatched = <<>>
  /\ rpc = [at |-> "off", kind |-> "search"]
  /\ wake = 0

Init ==
  /\ lock = "free"
  /\ status = "Idle"
  /\ progress = 0
  /\ total = 0
  /\ output_files = {}
  /\ pc = "idle"
  /\ max_results = None
  /\ total_available = None
  /\ total_fetched = 0
  /\ all_articles = <<>>
  /\ widx = 1
  /\ i_txt = 0
  /\ fs = [pickle |-> NoFile, json |-> NoFile, txt |-> {}, zip |-> NoArchive]
  /\ stack = <<>>
  /\ fetch = NoFetch
  /\ ret = <<>>
  /\ requests = <<>>
  /\ ppc = "idle"
  /\ snap = None
  /\ clock = 0
  /\ last_updated = 0
  /\ pub_date = None
  /\ PublicationDate = NotParsed
  /\ other = NoOther
  /\ ppc2 = "idle"
  /\ dl = None
  /\ RateIdle

Task ==
  \/ task_makedirs
  \/ task_acquire
  \/ task_output_files
  \/ task_starting
  \/ task_search
  \/ task_total
  \/ task_loop
  \/ recursive_load(Counts)
  \/ fetch_articles_break
  \/ fetch_articles_batch
  \/ recursive_load_return("extend")
  \/ task_extend
  \/ task_progress
  \/ task_status
  \/ task_open
  \/ task_dump_pickle
  \/ task_dump_json
  \/ task_mkdir_txt
  \/ task_write_txt
  \/ task_zip_write

Next ==
  \/ start_loading
  \/ Task
  \/ poll_acquire
  \/ poll_stamp
  \/ poll_read

Spec == Init /\ [][Next]_vars

\* the longest the clock runs
MaxClock == 1

\* time passes between two steps of the handlers and the worker
clock_tick ==
  /\ clock < MaxClock
  /\ clock' = clock + 1
  /\ UNCHANGED <<loaderVars, taskVars, fs, loadVars, pollVars, dl, rateVars,
                 last_updated, dateVars, other, ppc2>>

NextStamp ==
  \/ Next
  \/ clock_tick

\* the loader of Spec, with the clock running
SpecStamp == Init /\ [][NextStamp]_vars

NextDl ==
  \/ start_loading
  \/ Task
  \/ \E kind \in {"json", "zip"} : download(kind)

SpecDl == Init /\ [][NextDl]_vars

(***************************************************************************)
(* SpecLoad: one call load_articles_by_date(query, start, end, remaining)  *)
(* on a window of the ladder, with counts and budgets around the page size *)
(* and the ceiling.  task() passes a budget of at least 1, or None.        *)
(***************************************************************************)
LoadBudgets ==
  {None} \cup {Some(m) : m \in (Near(0) \cup Near(BatchSize) \cup Near(W)) \ {0}}

InitLoad ==
  /\ lock = "free"
  /\ status = "Downloading..."
  /\ progress = 0
  /\ total = 0
  /\ output_files = {"json", "zip"}
  /\ pc = "rl_search"
  /\ max_results \in LoadBudgets
  /\ total_available = None
  /\ total_fetched = 0
  /\ all_articles = <<>>
  /\ widx \in 1..Len(Ladder)
  /\ i_txt = 0
  /\ fs = [pickle |-> NoFile, json |-> NoFile, txt |-> {}, zip |-> NoArchive]
  /\ stack = << [start |-> Ladder[widx][1], end |-> Ladder[widx][2],
                 remaining |-> Budget(max_results)] >>
  /\ fetch = NoFetch
  /\ ret = <<>>
  /\ requests = <<>>
  /\ ppc = "idle"
  /\ snap = None
  /\ clock = 0
  /\ last_updated = 0
  /\ pub_date = None
  /\ PublicationDate = NotParsed
  /\ other = NoOther
  /\ ppc2 = "idle"
  /\ dl = None
  /\ RateIdle

NextLoad ==
  \/ recursive_load(LoadCounts)
  \/ fetch_articles_break
  \/ fetch_articles_batch
  \/ recursive_load_return("load_done")

SpecLoad == InitLoad /\ [][NextLoad]_vars

(***************************************************************************)
(* SpecRate: CustomPubMed._get in time.  One caller, as task() is, sends   *)
(* searches and fetches one after the other; time passes in ticks, between *)
(* any two steps and for as long as a request is in flight.                *)
(***************************************************************************)
\* ticks in a second
TicksPerSecond == 10
\* the clock stops at MaxNow
MaxNow == 12

\* PubMed.py:50  datetime.timedelta(seconds=1)
Second == TicksPerSecond
\* PubMed.py:59  time.sleep(0.1)
RetrySleep == TicksPerSecond \div 10
\* PubMed.py:152  time.sleep(0.34)
BatchSleep == (34 * TicksPerSecond) \div 100

\* a slip: no request time is ever dropped
Recent_KeepAll(times, current_time) == times

\* PubMed.py:47-51  the request times kept at current_time
Recent(times, current_time) ==
  SelectSeq(times, LAMBDA req_time : req_time > current_time - Second)

\* a slip: > for >=
Exceeded_Strict(times) == Len(times) > RateLimit

\* PubMed.py:52
Exceeded(times) == Len(times) >= RateLimit

\* `dispatched` holds the times at which requests left in the trailing
\* second (now - Second, now]
\* the caller between two requests
Ready == [at |-> "ready", kind |-> "none"]

tick ==
  /\ rpc.at # "off"
  /\ now < MaxNow
  /\ now' = now + 1
  /\ dispatched' = SelectSeq(dispatched, LAMBDA t : t > now' - Second)
  /\ UNCHANGED <<loaderVars, taskVars, fs, loadVars, pollVars, dl,
                 requestsMade, rpc, wake, stampVars, dateVars, other, ppc2>>

\* PubMed.py:89, 136  search_with_history or fetch_articles calls _get
get_call ==
  /\ rpc.at = "ready"
  /\ \E kind \in {"search", "fetch"} : rpc' = [at |-> "check", kind |-> kind]
  /\ UNCHANGED <<loaderVars, taskVars, fs, loadVars, pollVars, dl, now,
                 requestsMade, dispatched, wake, stampVars, dateVars, other,
                 ppc2>>

\* PubMed.py:43-52, 58-59  one turn of the wait loop
get_check ==
  /\ rpc.at = "check"
  /\ requestsMade' = Recent(requestsMade, now)
  /\ IF Exceeded(requestsMade')
     THEN /\ rpc' = [rpc EXCEPT !.at = "sleep"]
          /\ wake' = now + RetrySleep
     ELSE /\ rpc' = [rpc EXCEPT !.at = "send"]
          /\ UNCHANGED wake
  /\ UNCHANGED <<loaderVars, taskVars, fs, loadVars, pollVars, dl, now,
                 dispatched, stampVars, dateVars, other, ppc2>>

\* PubMed.py:59, 152  a sleep ends, no earlier than asked
sleep_over ==
  /\ rpc.at \in {"sleep", "nap"}
  /\ now >= wake
  /\ rpc' = IF rpc.at = "sleep" THEN [rpc EXCEPT !.at = "check"] ELSE Ready
  /\ wake' = 0
  /\ UNCHANGED <<loaderVars, taskVars, fs, loadVars, pollVars, dl, now,
                 requestsMade, dispatched, stampVars, dateVars, other, ppc2>>

\* PubMed.py:60  requests.get sends the request
get_send ==
  /\ rpc.at = "send"
  /\ dispatched' = Append(dispatched, now)
  /\ rpc' = [rpc EXCEPT !.at = "inflight"]
  /\ UNCHANGED <<loaderVars, taskVars, fs, loadVars, pollVars, dl, now,
                 requestsMade, wake, stampVars, dateVars, other, ppc2>>

\* PubMed.py:61-72, 146-152  the response is there: an error is raised on
\* and ends the caller; else the time is recorded, and fetch_articles sleeps
\* after a page that held articles
get_response ==
  /\ rpc.at = "inflight"
  /\ \/ /\ rpc' = [rpc EXCEPT !.at = "dead"]
        /\ UNCHANGED <<requestsMade, wake>>
     \/ /\ requestsMade' = Append(requestsMade, now)
        /\ \/ /\ rpc' = Ready
              /\ UNCHANGED wake
           \/ /\ rpc.kind = "fetch"
              /\ rpc' = [rpc EXCEPT !.at = "nap"]
              /\ wake' = now + BatchSleep
  /\ UNCHANGED <<loaderVars, taskVars, fs, loadVars, pollVars, dl, now,
                 dispatched, stampVars, dateVars, other, ppc2>>

InitRate ==
  /\ lock = "free"
  /\ status = "Downloading..."
  /\ progress = 0
  /\ total = 0
  /\ output_files = {"json", "zip"}
  /\ pc = "rate"
  /\ max_results = None
  /\ total_available = None
  /\ total_fetched = 0
  /\ all_articles = <<>>
  /\ widx = 1
  /\ i_txt = 0
  /\ fs = [pickle |-> NoFile, json |-> NoFile, txt |-> {}, zip |-> NoArchive]
  /\ stack = <<>>
  /\ fetch = NoFetch
  /\ ret = <<>>
  /\ requests = <<>>
  /\ ppc = "idle"
  /\ snap = None
  /\ clock = 0
  /\ last_updated = 0
  /\ pub_date = None
  /\ PublicationDate = NotParsed
  /\ other = NoOther
  /\ ppc2 = "idle"
  /\ dl = None
  /\ now = 0
  /\ requestsMade = <<>>
  /\ dispatched = <<>>
  /\ rpc = Ready
  /\ wake = 0

NextRate ==
  \/ tick
  \/ get_call
  \/ get_check
  \/ sleep_over
  \/ get_send
  \/ get_response

SpecRate == InitRate /\ [][NextRate]_vars

(***************************************************************************)
(* SpecRate2: two jobs of one process.  Each task() makes its own          *)
(* CustomPubMed (PubMed.py:463), so each job's _get keeps its own          *)
(* _requestsMade; `dispatched` holds the requests of both.                 *)
(***************************************************************************)
\* the time SpecRate2 runs for
MaxNow2 == 2

\* PubMed.py:89, 136  the second job calls _get
other_get_call ==
  /\ other.at = "ready"
  /\ \E kind \in {"search", "fetch"} :
       other' = [other EXCEPT !.at = "check", !.kind = kind]
  /\ UNCHANGED <<loaderVars, taskVars, fs, loadVars, pollVars, dl, rateVars,
                 stampVars, dateVars, ppc2>>

\* PubMed.py:43-52, 58-59  one turn of the second job's wait loop
other_get_check ==
  /\ other.at = "check"
  /\ LET kept == Recent(other.requestsMade, now) IN
       other' = IF Exceeded(kept)
                THEN [other EXCEPT !.requestsMade = kept, !.at = "sleep",
                                   !.wake = now + RetrySleep]
                ELSE [other EXCEPT !.requestsMade = kept, !.at = "send"]
  /\ UNCHANGED <<loaderVars, taskVars, fs, loadVars, pollVars, dl, rateVars,
                 stampVars, dateVars, ppc2>>

\* PubMed.py:59, 152  a sleep of the second job ends
other_sleep_over ==
  /\ other.at \in {"sleep", "nap"}
  /\ now >= other.wake
  /\ other' = IF other.at = "sleep"
              THEN [other EXCEPT !.at = "check", !.wake = 0]
              ELSE [other EXCEPT !.at = "ready", !.kind = "none", !.wake = 0]
  /\ UNCHANGED <<loaderVars, taskVars, fs, loadVars, pollVars, dl, rateVars,
                 stampVars, dateVars, ppc2>>

\* PubMed.py:60  requests.get of the second job sends the request
other_get_send ==
  /\ other.at = "send"
  /\ dispatched' = Append(dispatched, now)
  /\ other' = [other EXCEPT !.at = "inflight"]
  /\ UNCHANGED <<loaderVars, taskVars, fs, loadVars, pollVars, dl, now,
                 requestsMade, rpc, wake, stampVars, dateVars, ppc2>>

\* PubMed.py:61-72, 146-152  the response to the second job
other_get_response ==
  /\ other.at = "inflight"
  /\ \/ other' = [other EXCEPT !.at = "dead"]
     \/ other' = [other EXCEPT !.requestsMade = Append(@, now),
                               !.at = "ready", !.kind = "none"]
     \/ /\ other.kind = "fetch"
        /\ other' = [other EXCEPT !.requestsMade = Append(@, now),
                                  !.at = "nap", !.wake = now + BatchSleep]
  /\ UNCHANGED <<loaderVars, taskVars, fs, loadVars, pollVars, dl, rateVars,
                 stampVars, dateVars, ppc2>>

InitRate2 ==
  /\ lock = "free"
  /\ status = "Downloading..."
  /\ progress = 0
  /\ total = 0
  /\ output_files = {"json", "zip"}
  /\ pc = "rate"
  /\ max_results = None
  /\ total_available = None
  /\ total_fetched = 0
  /\ all_articles = <<>>
  /\ widx = 1
  /\ i_txt = 0
  /\ fs = [pickle |-> NoFile, json |-> NoFile, txt |-> {}, zip |-> NoArchive]
  /\ stack = <<>>
  /\ fetch = NoFetch
  /\ ret = <<>>
  /\ requests = <<>>
  /\ ppc = "idle"
  /\ snap = None
  /\ clock = 0
  /\ last_updated = 0
  /\ pub_date = None
  /\ PublicationDate = NotParsed
  /\ dl = None
  /\ now = 0
  /\ requestsMade = <<>>
  /\ dispatched = <<>>
  /\ rpc = Ready
  /\ wake = 0
  /\ other = [NoOther EXCEPT !.at = "ready"]
  /\ ppc2 = "idle"

NextRate2 ==
  \/ now < MaxNow2 /\ tick
  \/ get_call
  \/ get_check
  \/ sleep_over
  \/ get_send
  \/ get_response
  \/ other_get_call
  \/ other_get_check
  \/ other_sleep_over
  \/ other_get_send
  \/ other_get_response

SpecRate2 == InitRate2 /\ [][NextRate2]_vars

(***************************************************************************)
(* SpecLive: the job of Spec without pollers, or the caller of SpecRate,   *)
(* with the worker's thread scheduled and time passing.  A run starts as   *)
(* one or the other: the actions of the job are disabled at pc = "rate",   *)
(* those of _get at rpc.at = "off".                                        *)
(***************************************************************************)
InitLive == Init \/ InitRate

NextLive ==
  \/ start_loading
  \/ Task
  \/ NextRate

\* the thread of task() is scheduled whenever it can take a step
\* (PubMed.py:562), time passes, and a sleeping or checking caller of _get
\* goes on (PubMed.py:58-59)
SpecLive ==
  /\ InitLive
  /\ [][NextLive]_vars
  /\ WF_vars(Task)
  /\ WF_vars(tick)
  /\ WF_vars(get_check)
  /\ WF_vars(sleep_over)

(***************************************************************************)
(* SpecLock: a job launched for one article, with two pollers, and the     *)
(* threads scheduled                                                       *)
(***************************************************************************)
\* PubMed.py:442, 568  the second poller takes the lock
poll2_acquire ==
  /\ pc # "idle"
  /\ ppc2 \in {"idle", "mid"}
  /\ lock = "free"
  /\ lock' = "poller2"
  /\ ppc2' = IF ppc2 = "idle" THEN "stamp" ELSE "read"
  /\ UNCHANGED <<status, progress, total, output_files, taskVars, fs, loadVars,
                 pollVars, dl, rateVars, stampVars, dateVars, other>>

\* PubMed.py:566, 441-443  update_timestamp under the lock
poll2_stamp ==
  /\ ppc2 = "stamp"
  /\ last_updated' = update_timestamp(clock)
  /\ lock' = "free"
  /\ ppc2' = "mid"
  /\ UNCHANGED <<status, progress, total, output_files, taskVars, fs, loadVars,
                 pollVars, dl, rateVars, clock, dateVars, other>>

\* PubMed.py:568-573  the snapshot is returned to the second caller
poll2_read ==
  /\ ppc2 = "read"
  /\ lock' = "free"
  /\ ppc2' = "idle"
  /\ UNCHANGED <<status, progress, total, output_files, taskVars, fs, loadVars,
                 pollVars, dl, rateVars, stampVars, dateVars, other>>

\* app.py:20-47  POST /api/start with max_results = 1 has returned
InitLock ==
  /\ lock = "free"
  /\ status = "Idle"
  /\ progress = 0
  /\ total = 0
  /\ output_files = {}
  /\ pc = "mkdir"
  /\ max_results = ToMaxResults([kind |-> "int", v |-> 1])
  /\ total_available = None
  /\ total_fetched = 0
  /\ all_articles = <<>>
  /\ widx = 1
  /\ i_txt = 0
  /\ fs = [pickle |-> NoFile, json |-> NoFile, txt |-> {}, zip |-> NoArchive]
  /\ stack = <<>>
  /\ fetch = NoFetch
  /\ ret = <<>>
  /\ requests = <<>>
  /\ ppc = "idle"
  /\ snap = None
  /\ clock = 0
  /\ last_updated = update_timestamp(clock)
  /\ pub_date = None
  /\ PublicationDate = NotParsed
  /\ other = NoOther
  /\ ppc2 = "idle"
  /\ dl = None
  /\ RateIdle

NextLock ==
  \/ Task
  \/ poll_acquire
  \/ poll_stamp
  \/ poll_read
  \/ poll2_acquire
  \/ poll2_stamp
  \/ poll2_read

\* Every thread is scheduled whenever it can take a step, and a thread
\* waiting in lock.acquire() (PubMed.py:442, 459, 568, ...) gets a lock
\* that is released again and again.  A poller that is not inside
\* get_progress() may never call it again.
SpecLock ==
  /\ InitLock
  /\ [][NextLock]_vars
  /\ WF_vars(Task)
  /\ SF_vars(task_acquire)
  /\ WF_vars(poll_stamp)
  /\ WF_vars(poll_read)
  /\ SF_vars(ppc = "mid" /\ poll_acquire)
  /\ WF_vars(poll2_stamp)
  /\ WF_vars(poll2_read)
  /\ SF_vars(ppc2 = "mid" /\ poll2_acquire)

(***************************************************************************)
(* SpecDate: one article parsed, its PubDate drawn from the texts below    *)
(***************************************************************************)
\* the Month texts tried: abbreviations, names, other cases of letters,
\* numbers, and texts that are no month
Months ==
    {<<"J", "a", "n">>, <<"F", "e", "b">>, <<"M", "a", "r">>,
     <<"A", "p", "r">>, <<"M", "a", "y">>, <<"J", "u", "n">>,
     <<"J", "u", "l">>, <<"A", "u", "g">>, <<"S", "e", "p">>,
     <<"O", "c", "t">>, <<"N", "o", "v">>, <<"D", "e", "c">>,
     <<"J", "a", "n", "u", "a", "r", "y">>,
     <<"F", "e", "b", "r", "u", "a", "r", "y">>, <<"J", "u", "n", "e">>,
     <<"S", "e", "p", "t", "e", "m", "b", "e", "r">>,
     <<"D", "e", "c", "e", "m", "b", "e", "r">>, <<"J", "A", "N">>,
     <<"j", "a", "n">>, <<"M", "A", "R", "C", "H">>, <<"S", "e", "p", "t">>,
     <<"J", "u", "n", "k">>, <<"M", "a", "r", "z", "i", "p", "a", "n">>,
     <<"S", "p", "r", "i", "n", "g">>, <<"S", "u", "m", "m", "e", "r">>,
     <<"M", "a">>, <<"1">>, <<"3">>, <<"9">>, <<"0", "1">>, <<"0", "9">>,
     <<"1", "0">>, <<"1", "2">>, <<"1", "3">>, <<"0">>}

Years == {<<>>, <<"2", "0", "2", "0">>}

Days == {<<>>, <<"7">>, <<"0", "7">>, <<"2", "5">>}

PubDates ==
  {None} \cup
  {Some([Year |-> y, Month |-> m, Day |-> dd]) :
     y \in Years, m \in Months \cup {<<>>}, dd \in Days}

InitDate ==
  /\ lock = "free"
  /\ status = "Idle"
  /\ progress = 0
  /\ total = 0
  /\ output_files = {}
  /\ pc = "idle"
  /\ max_results = None
  /\ total_available = None
  /\ total_fetched = 0
  /\ all_articles = <<>>
  /\ widx = 1
  /\ i_txt = 0
  /\ fs = [pickle |-> NoFile, json |-> NoFile, txt |-> {}, zip |-> NoArchive]
  /\ stack = <<>>
  /\ fetch = NoFetch
  /\ ret = <<>>
  /\ requests = <<>>
  /\ ppc = "idle"
  /\ snap = None
  /\ clock = 0
  /\ last_updated = 0
  /\ dl = None
  /\ RateIdle
  /\ pub_date \in PubDates
  /\ PublicationDate = NotParsed
  /\ other = NoOther
  /\ ppc2 = "idle"

NextDate == parse_pubmed_article

\* one article parsed
SpecDate == InitDate /\ [][NextDate]_vars

(***************************************************************************)
(* Properties                                                              *)
(***************************************************************************)
\* the status "Downloading..." or a later one: `total` has been set
TotalKnown == Rank(status) >= Rank("Downloading...")

\* C1 (Spec): the progress field never decreases, and no snapshot of
\* get_progress() shows less progress than the snapshot before it.
C1_ProgressNonDecreasing ==
  [][ /\ progress' >= progress
      /\ (snap # None => snap'[1].progress >= snap[1].progress) ]_vars

\* a poller saw progress, and the job has progressed since
C1_Witness ==
  /\ snap # None
  /\ snap[1].progress >= 1
  /\ progress > snap[1].progress

\* C2 (Spec), as claimed: once total is set, 0 <= progress <= total, for
\* max_results absent, zero or positive and any counts of the service.
C2_ProgressWithinTotal ==
  (TotalKnown /\ (max_results = None \/ max_results[1] >= 0))
    => (0 <= progress /\ progress <= total)

\* C3 (Spec): the status changes only to the next status of the order, to
\* "Downloading..." only with the aggregate count known, and away from
\* "Downloading..." only with the ladder exhausted or the maximum reached.
C3_StatusForwardOnly ==
  [][ status' # status =>
        /\ Rank(status') = Rank(status) + 1
        /\ (status' = "Downloading..." => total_available # None)
        /\ (status = "Downloading..." =>
              \/ widx > Len(Ladder)
              \/ /\ max_results # None
                 /\ max_results[1] # 0
                 /\ total_fetched >= max_results[1]) ]_vars

\* a job completed on reaching its maximum before the end of the ladder
C3_Witness ==
  /\ status = "Completed"
  /\ widx <= Len(Ladder)
  /\ total_fetched >= 1

\* C4 (Spec), as claimed: a worker ended by a failed request or write
\* leaves the status Failed.
C4_FailureBecomesFailed == pc = "dead" => status = "Failed"

\* C5 (SpecRate): at every time t, at most RateLimit requests have left in
\* the trailing second (t - Second, t].
C5_AtMostKPerSecond ==
  Cardinality({i \in DOMAIN dispatched : dispatched[i] > now - Second})
    <= RateLimit

\* RateLimit requests left within the second and the next call is held back
C5_Witness ==
  /\ Len(dispatched) = RateLimit
  /\ rpc.at = "sleep"

\* the load has returned to its caller, having searched its window first
Loaded == pc = "load_done" /\ requests # <<>>
\* the count the search of the window reported
Available == requests[1].got
\* every fetched page held as many articles as were asked for
AllFull ==
  \A i \in DOMAIN requests :
    requests[i].kind = "fetch" => requests[i].got = requests[i].retmax
\* min(remaining, available), remaining being the budget of SpecLoad
MinBudget(available) ==
  IF max_results = None THEN available ELSE Min(max_results[1], available)

\* C6 (SpecLoad), as claimed: with available > W, remaining > W and full
\* pages, the load returns more than W articles.
C6_MoreThanCeiling ==
  (/\ Loaded
   /\ Available > W
   /\ (max_results = None \/ max_results[1] > W)
   /\ AllFull)
    => NumArticles(ret) > W

\* C7 (SpecLoad): with 0 < available <= W and full pages, the load returns
\* exactly min(remaining, available) articles.
C7_ExactCount ==
  (Loaded /\ Available >= 1 /\ Available <= W /\ AllFull)
    => NumArticles(ret) = MinBudget(Available)

\* several full pages, cut short by the budget
C7_Witness ==
  /\ Loaded
  /\ Available >= 1
  /\ Available <= W
  /\ AllFull
  /\ Len(ret) >= 2
  /\ max_results # None
  /\ NumArticles(ret) = max_results[1]
  /\ max_results[1] < Available

\* C8 (SpecLoad): when the search reports 0, it is the only request of the
\* load, no fetch starts, and the load returns the empty list.
C8_EmptyWindowNoFetch ==
  (requests # <<>> /\ requests[1].got = 0)
    => /\ Len(requests) = 1
       /\ requests[1].kind = "search"
       /\ fetch = NoFetch
       /\ ret = <<>>
       /\ pc \in {"rl_ret", "load_done"}

C8_Witness == Loaded /\ Available = 0 /\ ret = <<>>

\* C9 (SpecLoad), as claimed: for a window with available > W the result
\* is made of articles of the first half followed by articles of the second
\* half, and is no longer than remaining.
C9_HalvesInOrder ==
  (Loaded /\ Available > W) =>
    LET start == requests[1].win[1]
        end == requests[1].win[2]
        mid == MidPoint(start, end)
        InFirst(b) == start <= b.win[1] /\ b.win[2] <= mid
        InSecond(b) == mid + 1 <= b.win[1] /\ b.win[2] <= end
    IN /\ \A i \in DOMAIN ret : InFirst(ret[i]) \/ InSecond(ret[i])
       /\ \A i, j \in DOMAIN ret : i < j /\ InSecond(ret[i]) => ~InFirst(ret[j])
       /\ (max_results # None => NumArticles(ret) <= max_results[1])

\* C10 (SpecDl), as claimed: a download endpoint sends a file only for a
\* job whose status is Completed, and then a completely written one.
C10_ServedOnlyWhenCompleted ==
  (dl # None /\ dl[1].answer = "file")
    => (dl[1].status = "Completed" /\ dl[1].file = "complete")

\* C11 (Spec): at Completed the identifier list, the document, the text
\* files and the archive hold the same N articles, N being the progress:
\* the identifiers and the document are the accumulated list in its order,
\* the text files are 0.txt .. (N-1).txt and the archive holds exactly them.
C11_ArtifactsAgree ==
  status = "Completed" =>
    LET N == NumArticles(all_articles) IN
      /\ fs.pickle.state = "complete"
      /\ fs.pickle.data = all_articles
      /\ NumArticles(fs.pickle.data) = N
      /\ fs.json.state = "complete"
      /\ fs.json.data = all_articles
      /\ fs.txt = 0..(N - 1)
      /\ Cardinality(fs.txt) = N
      /\ fs.zip.state = "complete"
      /\ fs.zip.data = fs.txt
      /\ progress = N

\* a completed job with articles of two windows
C11_Witness ==
  /\ status = "Completed"
  /\ Len(all_articles) >= 2
  /\ all_articles[1].win # all_articles[2].win

\* the count esearch reported for the query: the records that exist
Existing == total_available[1]

\* C12 (Spec), as claimed: a job launched with max_results = M >= 1 ends
\* with total = M when M records exist and with total = the number that
\* exist when fewer do.
C12_FinalTotal ==
  (status = "Completed" /\ max_results # None /\ max_results[1] >= 1)
    => total = Min(max_results[1], Existing)

\* a launch (load_articles) or the stamping step of a get_progress() call
Touch ==
  \/ pc = "idle" /\ pc' # "idle"
  \/ ppc = "stamp" /\ ppc' # "stamp"

\* C13 (SpecStamp): last_updated is set to the current time by the launch
\* and by every get_progress() call, and by no other step: every step of
\* the worker leaves it as it was, so it never decreases and is the time of
\* the latest launch or status read.
C13_StampedOnlyByTouch ==
  [][ /\ Touch => last_updated' = clock /\ clock' = clock
      /\ ~Touch => last_updated' = last_updated
      /\ last_updated' >= last_updated
      /\ last_updated' <= clock' ]_vars

\* a status read has stamped the loader at a later time than the launch's,
\* while the worker has articles
C13_Witness ==
  /\ ppc = "mid"
  /\ clock > 0
  /\ last_updated = clock
  /\ progress > 0

\* the worker is in (or about to start) a remote request with its rate
\* limiter wait, or a write to a file or directory of base_dir
Blocking ==
  pc \in {"mkdir", "search", "rl_search", "fa_loop", "rl_ret",
          "open_pickle", "dump_pickle", "open_json", "dump_json",
          "mkdir_txt", "write_txt", "open_zip", "zip_write"}

\* C14 (Spec): the worker never holds the lock while a remote request, a
\* rate limiter wait or a file write is in progress: it holds the lock only
\* inside a block that assigns fields, and is waiting for or outside the
\* lock everywhere else.
C14_NoLockWhileBlocking ==
  /\ Blocking => lock # "task"
  /\ lock = "task" => pc \in {LockBody[a] : a \in DOMAIN LockBody}
  /\ pc \in DOMAIN LockBody => lock # "task"

\* the worker fetches a page while a poller holds the lock
C14_Witness ==
  /\ pc = "fa_loop"
  /\ lock = "poller"
  /\ fetch.fetched > 0

\* calendar.month_name of the C locale, lowered
month_name ==
  <<<<"j", "a", "n", "u", "a", "r", "y">>,
     <<"f", "e", "b", "r", "u", "a", "r", "y">>,
     <<"m", "a", "r", "c", "h">>,
     <<"a", "p", "r", "i", "l">>,
     <<"m", "a", "y">>,
     <<"j", "u", "n", "e">>,
     <<"j", "u", "l", "y">>,
     <<"a", "u", "g", "u", "s", "t">>,
     <<"s", "e", "p", "t", "e", "m", "b", "e", "r">>,
     <<"o", "c", "t", "o", "b", "e", "r">>,
     <<"n", "o", "v", "e", "m", "b", "e", "r">>,
     <<"d", "e", "c", "e", "m", "b", "e", "r">>>>

IsDigits(str) == \A i \in DOMAIN str : \E k \in DOMAIN Digits : Digits[k] = str[i]

DigitValue(c) == (CHOOSE k \in DOMAIN Digits : Digits[k] = c) - 1

\* the number a string of one or two digits writes
Value(str) ==
  IF Len(str) = 1 THEN DigitValue(str[1])
  ELSE 10 * DigitValue(str[1]) + DigitValue(str[2])

\* the month a Month text names, 0 when it names none: an English
\* abbreviation, a full name, or a number from 1 to 12
MonthNamed(month) ==
  IF \E k \in 1..12 : month_abbr[k] = Lower(month)
    THEN CHOOSE k \in 1..12 : month_abbr[k] = Lower(month)
  ELSE IF \E k \in 1..12 : month_name[k] = Lower(month)
    THEN CHOOSE k \in 1..12 : month_name[k] = Lower(month)
  ELSE IF month # <<>> /\ Len(month) <= 2 /\ IsDigits(month) /\ Value(month) \in 1..12
    THEN Value(month)
  ELSE 0

\* the month part the claim expects in the date
ExpectedMonth(month) ==
  IF MonthNamed(month) # 0 THEN TwoDigits(MonthNamed(month)) ELSE month

\* C15 (SpecDate), as claimed: in the PublicationDate of an article with a
\* year and a month, the month is the two-digit number when the Month text
\* is an English abbreviation, a full name or a number, and the Month text
\* itself otherwise.
C15_MonthNormalised ==
  (PublicationDate # NotParsed /\ pub_date # None
     /\ pub_date[1].Year # <<>> /\ pub_date[1].Month # <<>>)
    => PublicationDate =
         pub_date[1].Year \o <<"-">> \o ExpectedMonth(pub_date[1].Month)
           \o (IF pub_date[1].Day = <<>> THEN <<>>
               ELSE <<"-">> \o zfill(pub_date[1].Day, 2))

\* C16 (SpecLoad): every fetch request asks for positions within the
\* ceiling of its search handle: retstart + retmax <= W.
C16_FetchWithinCeiling ==
  \A i \in DOMAIN requests :
    requests[i].kind = "fetch" => requests[i].retstart + requests[i].retmax <= W

\* the last page of a window holding more than W articles ends at the ceiling
C16_Witness ==
  /\ requests # <<>>
  /\ Available > W
  /\ \E i \in DOMAIN requests :
       /\ requests[i].kind = "fetch"
       /\ requests[i].retstart > 0
       /\ requests[i].retstart + requests[i].retmax = W

\* C17 (SpecLoad), as claimed: a window holding more than W articles is
\* split at a day m into [start, m] and [m + 1, end], which cover its days
\* with no gap and no overlap: the first is searched, and every search
\* after the window's own lies within one of the two.
C17_SplitCovers ==
  (Loaded /\ Available > W) =>
    LET start == requests[1].win[1]
        end == requests[1].win[2]
        Within(win, a, b) == a <= win[1] /\ win[1] <= win[2] /\ win[2] <= b
    IN \E m \in start..(end - 1) :
         /\ \E i \in DOMAIN requests :
              requests[i].kind = "search" /\ requests[i].win = <<start, m>>
         /\ \A j \in DOMAIN requests :
              (j > 1 /\ requests[j].kind = "search")
                => \/ Within(requests[j].win, start, m)
                   \/ Within(requests[j].win, m + 1, end)

\* the most requests one load sends: a search and the pages up to W
MaxRequests == 1 + ((W + BatchSize - 1) \div BatchSize)

\* how far a load is from its end: the requests it may still send, then
\* the steps left after the last of them
Measure ==
  4 * (MaxRequests - Len(requests))
    + (CASE pc = "rl_search" -> 3
         [] pc = "fa_loop" -> 2
         [] pc = "rl_ret" -> 1
         [] OTHER -> 0)

\* C18 (SpecLoad): the recursion of load_articles_by_date terminates for
\* every window and every sequence of counts: every step brings the load
\* nearer to its end, a window is split only into a strictly shorter one,
\* and a window of a single day is never split.
C18_Terminates ==
  [][ /\ Measure' < Measure
      /\ Measure' >= 0
      /\ Len(stack') > Len(stack) =>
           /\ Top.end > Top.start
           /\ stack'[Len(stack')].end - stack'[Len(stack')].start
                < Top.end - Top.start ]_vars

\* a load of a window holding more than W articles has ended
C18_Witness ==
  /\ pc = "load_done"
  /\ requests # <<>>
  /\ Available > W
  /\ ret # <<>>
  /\ stack = <<>>

\* min(remaining, available, W) of the load, 0 for an empty window
Want == Min(MinBudget(Available), W)

\* the requests of the log that are fetches
Fetches == {i \in DOMAIN requests : requests[i].kind = "fetch"}

\* C19 (SpecLoad): the pages of one handle are asked for at offsets 0, p,
\* 2p, ..., each of size min(p, want - offset); no page follows an empty
\* one or an offset of want or more, so there are at most ceil(want / p).
C19_PagesInSequence ==
  requests # <<>> =>
    /\ \A i \in Fetches :
         /\ requests[i].retstart = (i - 2) * BatchSize
         /\ requests[i].retstart < Want
         /\ requests[i].retmax = Min(BatchSize, Want - requests[i].retstart)
         /\ requests[i].got = 0 => i = Len(requests)
    /\ Cardinality(Fetches) <= (Want + BatchSize - 1) \div BatchSize

\* a short page, a page after it, and an empty page that ends the fetch
C19_Witness ==
  /\ Loaded
  /\ Len(requests) >= 4
  /\ requests[Len(requests)].got = 0
  /\ \E i \in Fetches : requests[i].got > 0 /\ requests[i].got < requests[i].retmax

\* C20 (Spec): each window of the ladder is loaded with the maximum less the
\* articles accumulated so far, and once the accumulated articles reach the
\* maximum no search or fetch is sent any more.
C20_BudgetPerWindow ==
  [][ /\ (pc = "loop" /\ pc' = "rl_search") =>
           /\ <<stack'[1].start, stack'[1].end>> = Ladder[widx]
           /\ Truthy(max_results) =>
                stack'[1].remaining =
                  Some(max_results[1] - NumArticles(all_articles))
      /\ (Truthy(max_results) /\ NumArticles(all_articles) >= max_results[1]) =>
           /\ requests' = requests
           /\ pc' \notin {"rl_search", "fa_loop"} ]_vars

\* the maximum was reached in the first window: the job is Completed and
\* the later windows were never searched
C20_Witness ==
  /\ status = "Completed"
  /\ Truthy(max_results)
  /\ NumArticles(all_articles) = max_results[1]
  /\ widx = 1
  /\ \A i \in DOMAIN requests : requests[i].win = Ladder[1]

\* C21 (Spec), as claimed: every write of the worker to status, progress,
\* total or output_files is made while the worker holds the lock, the
\* write of "Starting..." and the reset of progress included.
C21_WritesUnderLock ==
  [][ (\/ status' # status
       \/ progress' # progress
       \/ total' # total
       \/ output_files' # output_files) => lock = "task" ]_vars

\* C22 (SpecRate2), as claimed: with two jobs running, the requests both
\* have sent in the trailing second (now - Second, now] are at most
\* RateLimit together.
C22_AtMostKTogether ==
  Len(SelectSeq(dispatched, LAMBDA t : t > now - Second)) <= RateLimit

\* C23 (SpecLive): with the worker scheduled and time passing, a launched
\* job reaches Completed unless a request or a write fails, and a caller in
\* the wait loop of _get, with the time left for its recorded requests to
\* grow a second old, gets to send its request.
C23_EventuallyCompleted ==
  /\ (pc \notin {"idle", "rate"}) ~> (status = "Completed" \/ pc = "dead")
  /\ (rpc.at \in {"check", "sleep"} /\ now + Second + RetrySleep <= MaxNow)
       ~> (rpc.at = "send")

\* a job that asked for no maximum has walked the whole ladder, fetched in
\* every window, and is Completed
C23_Witness ==
  /\ status = "Completed"
  /\ max_results = None
  /\ widx > Len(Ladder)
  /\ \A w \in DOMAIN Ladder :
       \E b \in DOMAIN all_articles : all_articles[b].win = Ladder[w]

=============================================================================
